---- MODULE Spec2Model ----
(***************************************************************************)
(* Model of src/merger.py (class CSVMerger): construction, folder and file *)
(* discovery, safe CSV loading, the horizontal merge and the run loop with *)
(* its summary.                                                            *)
(*                                                                         *)
(* Text (file names, column names, class names) is a sequence of           *)
(* one-character strings, so that lower-casing, substring search, digit    *)
(* parsing and f-string formatting are computed, not assumed.              *)
(* An Optional value is a sequence: <<>> is None, <<v>> is the value v.    *)
(***************************************************************************)
EXTENDS Integers, Sequences, FiniteSets, TLC

VARIABLES
    pc,            \* position of the program
    root,          \* what the root path is on disk: "missing", "file", "dir"
    error,         \* exception that ended the program, "none" if none
    out_dir_made,  \* run: output_dir.mkdir was executed
    scanned,       \* directories that were listed (iterdir / glob)
    reads,         \* names of the files handed to pd.read_csv, in order
    outputs,       \* output directory: file name -> table written by to_csv
    class_folders, \* run: sorted(class_folders)
    ci,            \* run: 1-based position of the loop over the class folders
    csv_files,     \* process_class: sorted CSV files of the current class
    pos,           \* process_class: 1-based position of the next file to read
    read_log,      \* what each read of the current class returned
    dataframes,    \* process_class: dataframes / merge_dataframes: dfs
    file_names,    \* process_class: file_names / merge_dataframes: file_names
    metadata,      \* process_class: the metadata dict being built / returned
    merge_call,    \* arguments of the calls of merge_dataframes of this class
    all_metadata,  \* run: all_metadata
    summary,       \* lines printed by print_summary
    result,        \* merge_dataframes: result
    idx,           \* merge_dataframes: idx of the loop (enumerate start=2)
    suffix         \* merge_dataframes: suffix of the last iteration

vars == <<pc, root, error, out_dir_made, scanned, reads, outputs, class_folders, ci,
          csv_files, pos, read_log, dataframes, file_names, metadata, merge_call,
          all_metadata, summary, result, idx, suffix>>

----------------------------------------------------------------------------
(* Bounds of the model *)

\* largest row count of a CSV file
MaxRows == 2

\* largest number of tables handed to merge_dataframes in SpecMerge
MaxLen == 3

----------------------------------------------------------------------------
(* Text *)

None == <<>>

Some(v) == <<v>>

Digits == <<"0", "1", "2", "3", "4", "5", "6", "7", "8", "9">>

UpperChars == <<"A", "B", "C", "D", "E", "F", "G", "H", "I", "J", "K", "L", "M",
                "N", "O", "P", "Q", "R", "S", "T", "U", "V", "W", "X", "Y", "Z">>

LowerChars == <<"a", "b", "c", "d", "e", "f", "g", "h", "i", "j", "k", "l", "m",
                "n", "o", "p", "q", "r", "s", "t", "u", "v", "w", "x", "y", "z">>

\* the characters of the model in code-point order
Ascii == <<".">> \o Digits \o UpperChars \o <<"_">> \o LowerChars

Ord(c) == CHOOSE i \in 1..Len(Ascii) : Ascii[i] = c

IsDigit(c) == \E i \in 1..Len(Digits) : Digits[i] = c

DigitVal(c) == (CHOOSE i \in 1..Len(Digits) : Digits[i] = c) - 1

SetMin(S) == CHOOSE m \in S : \A n \in S : m <= n

\* str.lower() of one character
LowerChar(c) ==
    IF \E i \in 1..Len(UpperChars) : UpperChars[i] = c
    THEN LowerChars[CHOOSE i \in 1..Len(UpperChars) : UpperChars[i] = c]
    ELSE c

\* str.lower()
LowerStr(s) == [i \in 1..Len(s) |-> LowerChar(s[i])]

\* sub in s
Contains(s, sub) ==
    \E i \in 0..(Len(s) - Len(sub)) : SubSeq(s, i + 1, i + Len(sub)) = sub

\* int(text) of a run of decimal digits
RECURSIVE ParseInt(_)
ParseInt(s) ==
    IF s = <<>> THEN 0
    ELSE 10 * ParseInt(SubSeq(s, 1, Len(s) - 1)) + DigitVal(s[Len(s)])

\* str(n) for n >= 0, as the f-strings format an int
RECURSIVE IntToStr(_)
IntToStr(n) ==
    IF n < 10 THEN <<Digits[n + 1]>>
    ELSE IntToStr(n \div 10) \o <<Digits[(n % 10) + 1]>>

\* first index >= i of s that is not in the run of digits (d) or non-digits (~d)
RECURSIVE RunEnd(_, _, _)
RunEnd(s, i, d) ==
    IF i > Len(s) \/ (IsDigit(s[i]) # d) THEN i ELSE RunEnd(s, i + 1, d)

\* text < text by code points
RECURSIVE StrLess(_, _)
StrLess(a, b) ==
    IF b = <<>> THEN FALSE
    ELSE IF a = <<>> THEN TRUE
    ELSE IF a[1] # b[1] THEN Ord(a[1]) < Ord(b[1])
    ELSE StrLess(Tail(a), Tail(b))

----------------------------------------------------------------------------
(* utils: the three helper functions merger.py imports *)

\* extract_ex_number(filename): the integer after the first case-insensitive
\* "ex" that is followed by a digit, None if there is none
extract_ex_number(filename) ==
    LET low == LowerStr(filename)
        starts == {i \in 1..(Len(low) - 2) :
                      low[i] = "e" /\ low[i + 1] = "x" /\ IsDigit(low[i + 2])}
    IN  IF starts = {} THEN None
        ELSE LET b == SetMin(starts) + 2
             IN  Some(ParseInt(SubSeq(low, b, RunEnd(low, b, TRUE) - 1)))

\* find_matching_column(role, columns): first column whose lower-case form
\* contains the role keyword, None if there is none
find_matching_column(role, columns) ==
    LET hits == {i \in 1..Len(columns) : Contains(LowerStr(columns[i]), role)}
    IN  IF hits = {} THEN None ELSE Some(columns[SetMin(hits)])

\* natural sort key: text, number, text, number, ..., text
RECURSIVE NaturalKey(_, _)
NaturalKey(s, i) ==
    LET e == RunEnd(s, i, FALSE)
        text == SubSeq(s, i, e - 1)
    IN  IF e > Len(s) THEN <<text>>
        ELSE LET e2 == RunEnd(s, e, TRUE)
             IN  <<text, ParseInt(SubSeq(s, e, e2 - 1))>> \o NaturalKey(s, e2)

\* key a < key b: text by code points, digit runs as integers
RECURSIVE KeyLess(_, _)
KeyLess(a, b) ==
    IF b = <<>> THEN FALSE
    ELSE IF a = <<>> THEN TRUE
    ELSE IF Len(Head(a)) # Len(Head(b)) \/ Head(a) # Head(b)
         THEN StrLess(Head(a), Head(b))
    ELSE IF Len(a) = 1 THEN Len(b) > 1
    ELSE IF Len(b) = 1 THEN FALSE
    ELSE IF a[2] # b[2] THEN a[2] < b[2]
    ELSE KeyLess(Tail(Tail(a)), Tail(Tail(b)))

\* natural_sort_files(files)
RECURSIVE natural_sort_files(_)
natural_sort_files(files) ==
    IF files = {} THEN <<>>
    ELSE LET m == CHOOSE x \in files :
                     \A y \in files : ~KeyLess(NaturalKey(y, 1), NaturalKey(x, 1))
         IN  <<m>> \o natural_sort_files(files \ {m})

----------------------------------------------------------------------------
(* Tables (pandas.DataFrame) *)

\* A table: its column names in order, its row count (a RangeIndex 0..nrows-1)
\* and, per column, the cells of its rows.
\* pd.DataFrame()
EmptyFrame == [columns |-> <<>>, nrows |-> 0, data |-> <<>>]

\* the missing-value marker
NaN == <<>>

\* what pd.read_csv returns for a readable file: cell <<f, c, i>> is the value
\* file f holds in column c at row i
LoadedTable(fname, header, n) ==
    [columns |-> header, nrows |-> n,
     data |-> [c \in 1..Len(header) |-> [i \in 1..n |-> <<fname, header[c], i>>]]]

\* DataFrame.empty
IsEmpty(df) == df.nrows = 0 \/ df.columns = <<>>

ColPos(df, name) == CHOOSE c \in 1..Len(df.columns) : df.columns[c] = name

HasCol(df, name) == \E c \in 1..Len(df.columns) : df.columns[c] = name

\* df[name]
Column(df, name) == df.data[ColPos(df, name)]

\* result[new_col] = series: the series is aligned to the index of result
\* (cut or filled with NaN); a result without rows takes the index of a
\* non-empty series, its own columns filled with NaN
SetColumn(res, new_col, series) ==
    LET n == IF res.nrows = 0 /\ Len(series) > 0 THEN Len(series) ELSE res.nrows
        old == [c \in 1..Len(res.columns) |->
                   [i \in 1..n |-> IF i <= res.nrows THEN res.data[c][i] ELSE NaN]]
        vals == [i \in 1..n |-> IF i <= Len(series) THEN series[i] ELSE NaN]
    IN  IF HasCol(res, new_col)
        THEN [columns |-> res.columns, nrows |-> n,
              data |-> [old EXCEPT ![ColPos(res, new_col)] = vals]]
        ELSE [columns |-> Append(res.columns, new_col), nrows |-> n,
              data |-> Append(old, vals)]

----------------------------------------------------------------------------
(* merge_dataframes *)

\* truth value of an Optional[int]
TruthyInt(o) == o # None /\ o[1] # 0

\* truth value of an Optional[str]
TruthyStr(o) == o # None /\ o[1] # <<>>

\* suffix = f"_Ex{ex_num}" if ex_num else f"_{idx}"
Suffix(file_name, i) ==
    LET ex_num == extract_ex_number(file_name)
    IN  IF TruthyInt(ex_num) THEN <<"_", "E", "x">> \o IntToStr(ex_num[1])
        ELSE <<"_">> \o IntToStr(i)

\* d[k] = v on a dict kept as the sequence of its items in insertion order
DictSet(d, k, v) ==
    IF \E j \in 1..Len(d) : d[j][1] = k
    THEN [j \in 1..Len(d) |-> IF d[j][1] = k THEN <<k, v>> ELSE d[j]]
    ELSE Append(d, <<k, v>>)

\* columns_to_add of one subsequent table
ColumnsToAdd(df, sfx) ==
    LET x_col == find_matching_column(<<"x">>, df.columns)
        y_col == find_matching_column(<<"y">>, df.columns)
        z_col == find_matching_column(<<"z">>, df.columns)
        d0 == <<>>
        d1 == IF TruthyStr(x_col) THEN DictSet(d0, x_col[1], <<"X">> \o sfx) ELSE d0
        d2 == IF TruthyStr(y_col) THEN DictSet(d1, y_col[1], <<"Y">> \o sfx) ELSE d1
        d3 == IF TruthyStr(z_col) THEN DictSet(d2, z_col[1], <<"Z">> \o sfx) ELSE d2
    IN  d3

\* for orig_col, new_col in columns_to_add.items(): result[new_col] = df[orig_col]
RECURSIVE AddColumns(_, _, _)
AddColumns(res, df, items) ==
    IF items = <<>> THEN res
    ELSE AddColumns(SetColumn(res, items[1][2], Column(df, items[1][1])),
                    df, Tail(items))

\* one iteration of the loop over the subsequent tables
MergeOne(res, df, file_name, i) ==
    AddColumns(res, df, ColumnsToAdd(df, Suffix(file_name, i)))

\* MergeStart keeping only the first column of dfs[0]
MergeStart_FirstColumnOnly(dfs) ==
    [columns |-> SubSeq(dfs[1].columns, 1, 1), nrows |-> dfs[1].nrows,
     data |-> SubSeq(dfs[1].data, 1, 1)]

\* result = dfs[0].copy()
MergeStart(dfs) == dfs[1]

\* HasChannel without the check of line 109
HasChannel_Unchecked(df) == TRUE

\* time_col is not None, for time_col = find_matching_column('channel', ...)
HasChannel(df) ==
    find_matching_column(<<"c", "h", "a", "n", "n", "e", "l">>, df.columns) # None

\* the number of pairs zip(dfs[1:], file_names[1:]) yields, plus one
ZipLen(dfs, names) == IF Len(dfs) <= Len(names) THEN Len(dfs) ELSE Len(names)

RECURSIVE MergeLoop(_, _, _, _)
MergeLoop(res, dfs, names, i) ==
    IF i > ZipLen(dfs, names) THEN res
    ELSE MergeLoop(MergeOne(res, dfs[i], names[i], i), dfs, names, i + 1)

\* merge_dataframes(dfs, file_names)
merge_dataframes(dfs, names) ==
    IF dfs = <<>> THEN EmptyFrame
    ELSE IF ~HasChannel(dfs[1]) THEN EmptyFrame
    ELSE MergeLoop(MergeStart(dfs), dfs, names, 2)

----------------------------------------------------------------------------
(* The inputs of the model *)

\* names of the CSV files a class folder may hold
FileNames == {<<"E", "x", "2", ".", "c", "s", "v">>, <<"E", "x", "1", "0", ".", "c", "s", "v">>,
              <<"r", "u", "n", ".", "c", "s", "v">>, <<"s", "_", "e", "x", "0", ".", "c", "s", "v">>}

\* header rows a readable CSV file may have
Headers == {<<<<"C", "h", "a", "n", "n", "e", "l">>, <<"X">>, <<"Y">>, <<"Z">>>>,
            <<<<"t", "i", "m", "e">>, <<"x">>, <<"y">>>>,
            <<<<"Y", "a", "w">>, <<"c", "h", "a", "n", "n", "e", "l", "_", "1">>,
              <<"x", "y", "z">>>>}

\* the tables pd.read_csv may return for the file named fname
Tables(fname) == {LoadedTable(fname, h, n) : h \in Headers, n \in 0..MaxRows}

\* names of the CSV files a class folder holds in a whole run
RunFileNames == {<<"E", "x", "2", ".", "c", "s", "v">>, <<"E", "x", "1", "0", ".", "c", "s", "v">>, <<"r", "u", "n", ".", "c", "s", "v">>}

\* header rows of the readable CSV files of a whole run
RunHeaders == {<<<<"C", "h", "a", "n", "n", "e", "l">>, <<"X">>, <<"Y">>, <<"Z">>>>,
               <<<<"t", "i", "m", "e">>, <<"x">>, <<"y">>>>}

\* the tables pd.read_csv may return for the file named fname in a whole run
RunTables(fname) == {LoadedTable(fname, h, n) : h \in RunHeaders, n \in {0, MaxRows}}

\* names of the first-level subdirectories the root may hold
ClassNames == {<<"a">>, <<"b">>}

----------------------------------------------------------------------------
(* merge_dataframes, statement by statement *)

NoMeta == [class |-> <<>>, files |-> <<>>]

Idle ==
    /\ root = "dir" /\ error = "none" /\ out_dir_made = FALSE
    /\ scanned = {} /\ reads = <<>> /\ outputs = <<>>
    /\ class_folders = <<>> /\ ci = 1 /\ csv_files = <<>> /\ pos = 1 /\ read_log = <<>>
    /\ metadata = NoMeta /\ merge_call = <<>> /\ all_metadata = <<>>
    /\ summary = <<>>

\* a call merge_dataframes(dfs, file_names) on tables loaded from the files
\* of one class, in their sorted order
InitMerge ==
    /\ Idle
    /\ pc = "m_call"
    /\ \E S \in SUBSET FileNames :
          /\ Cardinality(S) <= MaxLen
          /\ file_names = natural_sort_files(S)
          /\ \E c \in [1..Cardinality(S) -> Headers \X (0..MaxRows)] :
                dataframes = [i \in 1..Cardinality(S) |->
                                 LoadedTable(file_names[i], c[i][1], c[i][2])]
    /\ result = EmptyFrame /\ idx = 2 /\ suffix = <<>>

UnchangedRun ==
    UNCHANGED <<root, error, out_dir_made, scanned, reads, outputs, class_folders, ci,
                csv_files, pos, read_log, metadata, merge_call, all_metadata,
                summary>>

\* lines 99-111: the empty input, the copy of the first table, the channel column
MergeBegin ==
    /\ pc = "m_call"
    /\ IF dataframes = <<>>
       THEN result' = EmptyFrame /\ pc' = "m_done"
       ELSE IF ~HasChannel(dataframes[1])
            THEN result' = EmptyFrame /\ pc' = "m_done"
            ELSE result' = MergeStart(dataframes) /\ pc' = "m_loop"
    /\ idx' = 2
    /\ UNCHANGED <<dataframes, file_names, suffix>>
    /\ UnchangedRun

\* lines 114-135: one iteration of the loop over the subsequent tables
MergeIter ==
    /\ pc = "m_loop"
    /\ idx <= ZipLen(dataframes, file_names)
    /\ suffix' = Suffix(file_names[idx], idx)
    /\ result' = MergeOne(result, dataframes[idx], file_names[idx], idx)
    /\ idx' = idx + 1
    /\ UNCHANGED <<pc, dataframes, file_names>>
    /\ UnchangedRun

\* line 137: return result
MergeReturn ==
    /\ pc = "m_loop"
    /\ idx > ZipLen(dataframes, file_names)
    /\ pc' = "m_done"
    /\ UNCHANGED <<dataframes, file_names, result, idx, suffix>>
    /\ UnchangedRun

NextMerge == MergeBegin \/ MergeIter \/ MergeReturn

SpecMerge == InitMerge /\ [][NextMerge]_vars

\* the statement-by-statement run returns what the operator computes
MergeAgrees ==
    pc = "m_done" => result = merge_dataframes(dataframes, file_names)

----------------------------------------------------------------------------
(* CSVMerger: construction, process_class, run, print_summary *)

\* the root directory, as an entry of scanned
RootDir == <<".">>

Init ==
    /\ pc = "new"
    /\ root \in {"missing", "file", "dir"}
    /\ error = "none" /\ out_dir_made = FALSE
    /\ scanned = {} /\ reads = <<>> /\ outputs = <<>>
    /\ class_folders = <<>> /\ ci = 1 /\ csv_files = <<>> /\ pos = 1 /\ read_log = <<>>
    /\ dataframes = <<>> /\ file_names = <<>>
    /\ metadata = NoMeta /\ merge_call = <<>> /\ all_metadata = <<>>
    /\ summary = <<>>
    /\ result = EmptyFrame /\ idx = 2 /\ suffix = <<>>

UnchangedMerge == UNCHANGED <<result, idx, suffix>>

\* Construct without the is_dir check of line 33
Construct_NoDirCheck ==
    /\ pc = "new"
    /\ IF root = "missing"
       THEN error' = "FileNotFoundError" /\ pc' = "failed"
       ELSE error' = error /\ pc' = "ready"
    /\ UNCHANGED <<root, out_dir_made, scanned, reads, outputs, class_folders, ci,
                   csv_files, pos, read_log, dataframes, file_names, metadata,
                   merge_call, all_metadata, summary>>
    /\ UnchangedMerge

\* CSVMerger.__init__(root_path)
Construct ==
    /\ pc = "new"
    /\ IF root = "missing"
       THEN error' = "FileNotFoundError" /\ pc' = "failed"
       ELSE IF root # "dir"
            THEN error' = "NotADirectoryError" /\ pc' = "failed"
            ELSE error' = error /\ pc' = "ready"
    /\ UNCHANGED <<root, out_dir_made, scanned, reads, outputs, class_folders, ci,
                   csv_files, pos, read_log, dataframes, file_names, metadata,
                   merge_call, all_metadata, summary>>
    /\ UnchangedMerge

\* sorted(class_folders): paths in code-point order
RECURSIVE SortedPaths(_)
SortedPaths(S) ==
    IF S = {} THEN <<>>
    ELSE LET m == CHOOSE x \in S : \A y \in S : ~StrLess(y, x)
         IN  <<m>> \o SortedPaths(S \ {m})

\* run, up to the loop over the classes: the output directory is made, the
\* first-level subdirectories are listed (get_class_folders) and sorted
RunStart ==
    /\ pc = "ready"
    /\ out_dir_made' = TRUE
    /\ scanned' = scanned \cup {RootDir}
    /\ \E folders \in SUBSET ClassNames :
          /\ class_folders' = SortedPaths(folders)
          /\ pc' = IF folders = {} THEN "done" ELSE "class"
    /\ UNCHANGED <<ci, root, error, reads, outputs, csv_files, pos, read_log,
                   dataframes, file_names, metadata, merge_call, all_metadata,
                   summary>>
    /\ UnchangedMerge

\* process_class, up to the loop over the files: get_csv_files lists and
\* sorts the CSV files; without files the short metadata is returned
ProcessClassStart ==
    /\ pc = "class"
    /\ scanned' = scanned \cup {class_folders[ci]}
    /\ \E files \in SUBSET RunFileNames :
          /\ csv_files' = natural_sort_files(files)
          /\ IF files = {}
             THEN /\ metadata' = [class |-> class_folders[ci], files |-> <<>>,
                                  merged_df |-> EmptyFrame]
                  /\ pc' = "save"
             ELSE /\ metadata' = [class |-> class_folders[ci], files |-> <<>>,
                                  total_rows |-> 0, total_columns |-> 0]
                  /\ pc' = "read"
    /\ dataframes' = <<>> /\ file_names' = <<>>
    /\ pos' = 1 /\ read_log' = <<>> /\ merge_call' = <<>>
    /\ UNCHANGED <<root, error, out_dir_made, reads, outputs, class_folders, ci,
                   all_metadata, summary>>
    /\ UnchangedMerge

\* read_csv_safely: outcome is what pd.read_csv did, None when it raised, else
\* the table it returned
read_csv_safely(outcome) ==
    IF outcome = None THEN <<EmptyFrame, FALSE>> ELSE <<outcome[1], TRUE>>

\* one iteration of the loop over csv_files
ReadFile ==
    /\ pc = "read"
    /\ pos <= Len(csv_files)
    /\ \E outcome \in {None} \cup {Some(t) : t \in RunTables(csv_files[pos])} :
          LET name == csv_files[pos]
              ex_num == extract_ex_number(name)
              r == read_csv_safely(outcome)
              df == r[1]
              success == r[2]
          IN  /\ read_log' = Append(read_log,
                                    [name |-> name, loaded |-> outcome # None,
                                     df |-> outcome])
              /\ IF success
                 THEN /\ dataframes' = Append(dataframes, df)
                      /\ file_names' = Append(file_names, name)
                      /\ metadata' =
                            [metadata EXCEPT !.files =
                                Append(@, [name |-> name, ex_number |-> ex_num,
                                           rows |-> df.nrows,
                                           columns |-> Len(df.columns)])]
                 ELSE UNCHANGED <<dataframes, file_names, metadata>>
    /\ reads' = Append(reads, <<class_folders[ci], csv_files[pos]>>)
    /\ pos' = pos + 1
    /\ UNCHANGED <<pc, root, error, out_dir_made, scanned, outputs, class_folders, ci,
                   csv_files, merge_call, all_metadata, summary>>
    /\ UnchangedMerge

\* process_class after the loop: the merge and the totals
MergeAll ==
    /\ pc = "read"
    /\ pos > Len(csv_files)
    /\ IF dataframes # <<>>
       THEN LET merged_df == merge_dataframes(dataframes, file_names)
            IN  /\ merge_call' = Append(merge_call,
                                        [dfs |-> dataframes, names |-> file_names])
                /\ metadata' = [class |-> metadata.class,
                                files |-> metadata.files,
                                total_rows |-> merged_df.nrows,
                                total_columns |-> Len(merged_df.columns),
                                merged_df |-> merged_df]
       ELSE /\ merge_call' = merge_call
            /\ metadata' = [class |-> metadata.class,
                            files |-> metadata.files,
                            total_rows |-> metadata.total_rows,
                            total_columns |-> metadata.total_columns,
                            merged_df |-> EmptyFrame]
    /\ pc' = "save"
    /\ UNCHANGED <<root, error, out_dir_made, scanned, reads, outputs,
                   class_folders, ci, csv_files, pos, read_log, dataframes, file_names,
                   all_metadata, summary>>
    /\ UnchangedMerge

\* f"{metadata['class']}_merged.csv"
OutputName(class) ==
    class \o <<"_", "m", "e", "r", "g", "e", "d", ".", "c", "s", "v">>

\* Save without the test of line 244: every merged table is written
Save_Unconditional ==
    /\ pc = "save"
    /\ all_metadata' = Append(all_metadata, metadata)
    /\ outputs' = (OutputName(metadata.class) :> metadata.merged_df) @@ outputs
    /\ ci' = ci + 1
    /\ pc' = IF ci = Len(class_folders) THEN "summary" ELSE "class"
    /\ UNCHANGED <<class_folders, root, error, out_dir_made, scanned, reads, csv_files, pos,
                   read_log, dataframes, file_names, metadata, merge_call, summary>>
    /\ UnchangedMerge

\* run: the rest of the loop body for one class, after process_class returned
Save ==
    /\ pc = "save"
    /\ all_metadata' = Append(all_metadata, metadata)
    /\ IF ~IsEmpty(metadata.merged_df)
       THEN outputs' = (OutputName(metadata.class) :> metadata.merged_df) @@ outputs
       ELSE outputs' = outputs
    /\ ci' = ci + 1
    /\ pc' = IF ci = Len(class_folders) THEN "summary" ELSE "class"
    /\ UNCHANGED <<class_folders, root, error, out_dir_made, scanned, reads, csv_files, pos,
                   read_log, dataframes, file_names, metadata, merge_call, summary>>
    /\ UnchangedMerge

HasKey(meta, key) == key \in DOMAIN meta

\* ex_label of a file descriptor
ExLabel(ex_number) ==
    IF TruthyInt(ex_number) THEN <<"E", "x">> \o IntToStr(ex_number[1])
    ELSE <<"U", "n", "k", "n", "o", "w", "n">>

\* the lines print_summary prints for one class; a dict without the key
\* 'total_rows' or 'total_columns' raises KeyError after the lines before it
SummaryOf(meta) ==
    LET head == <<[k |-> "Class", v |-> meta.class],
                  [k |-> "Files processed", v |-> Len(meta.files)]>>
        details == [i \in 1..Len(meta.files) |->
                       [k |-> "File", v |-> <<ExLabel(meta.files[i].ex_number),
                                              meta.files[i].name,
                                              meta.files[i].rows,
                                              meta.files[i].columns>>]]
    IN  IF ~HasKey(meta, "total_rows")
        THEN [lines |-> head, raised |-> TRUE]
        ELSE IF ~HasKey(meta, "total_columns")
        THEN [lines |-> Append(head, [k |-> "Total rows", v |-> meta.total_rows]),
              raised |-> TRUE]
        ELSE [lines |-> head \o <<[k |-> "Total rows", v |-> meta.total_rows],
                                  [k |-> "Total columns", v |-> meta.total_columns]>>
                        \o details,
              raised |-> FALSE]

\* the loop of print_summary over all_metadata
RECURSIVE SummaryLines(_)
SummaryLines(metas) ==
    IF metas = <<>> THEN [lines |-> <<>>, raised |-> FALSE]
    ELSE LET one == SummaryOf(Head(metas))
         IN  IF one.raised THEN one
             ELSE LET rest == SummaryLines(Tail(metas))
                  IN  [lines |-> one.lines \o rest.lines, raised |-> rest.raised]

\* run: print_summary(all_metadata), then run returns
PrintSummary ==
    /\ pc = "summary"
    /\ LET s == SummaryLines(all_metadata)
       IN  /\ summary' = s.lines
           /\ IF s.raised
              THEN error' = "KeyError" /\ pc' = "crashed"
              ELSE error' = error /\ pc' = "done"
    /\ UNCHANGED <<root, out_dir_made, scanned, reads, outputs, class_folders, ci,
                   csv_files, pos, read_log, dataframes, file_names, metadata,
                   merge_call, all_metadata>>
    /\ UnchangedMerge

Next ==
    \/ Construct
    \/ RunStart
    \/ ProcessClassStart
    \/ ReadFile
    \/ MergeAll
    \/ Save
    \/ PrintSummary

Spec == Init /\ [][Next]_vars

----------------------------------------------------------------------------
(* Properties *)

Roles == {<<"x">>, <<"y">>, <<"z">>}

\* 'X', 'Y' or 'Z' for the role 'x', 'y' or 'z'
RoleLetter(role) ==
    <<UpperChars[CHOOSE i \in 1..Len(LowerChars) : LowerChars[i] = role[1]]>>

\* the column names of a table that contain the keyword, ignoring case
Matching(keyword, df) ==
    {c \in 1..Len(df.columns) : Contains(LowerStr(df.columns[c]), keyword)}

ChannelWord == <<"c", "h", "a", "n", "n", "e", "l">>

\* a series laid on n rows by position: cut, or filled with the missing marker
Aligned(series, n) == [i \in 1..n |-> IF i <= Len(series) THEN series[i] ELSE NaN]

IsLoaded(e) == e.loaded

\* the reads of the current class that returned a table, in the order of the reads
LoadedEntries == SelectSeq(read_log, IsLoaded)

LoadedTables == [i \in 1..Len(LoadedEntries) |-> LoadedEntries[i].df[1]]

LoadedNames == [i \in 1..Len(LoadedEntries) |-> LoadedEntries[i].name]

\* the files whose values occur in a table
SourcesOf(df) ==
    {df.data[c][i][1] : <<c, i>> \in
        {ci2 \in (1..Len(df.columns)) \X (1..df.nrows) :
            df.data[ci2[1]][ci2[2]] # NaN}}

\* C1: a file of a class that fails to load never aborts the loop of
\* process_class: every file is read, the files that loaded are what
\* merge_dataframes receives, in their sorted order, the merged table holds
\* values of loaded files only, and when the first loaded file has a channel
\* column the merged table has the row count of that file.
C1_FailureIsolation ==
    (pc = "save" /\ csv_files # <<>>) =>
        /\ Len(read_log) = Len(csv_files)
        /\ \A i \in 1..Len(read_log) : read_log[i].name = csv_files[i]
        /\ LoadedEntries # <<>> =>
              merge_call = <<[dfs |-> LoadedTables, names |-> LoadedNames]>>
        /\ SourcesOf(metadata.merged_df)
              \subseteq {LoadedNames[i] : i \in 1..Len(LoadedNames)}
        /\ (LoadedEntries # <<>> /\ Matching(ChannelWord, LoadedTables[1]) # {}) =>
              metadata.merged_df.nrows = LoadedTables[1].nrows

\* the parts of C1 that do not depend on the row count
C1_IsolationOnly ==
    (pc = "save" /\ csv_files # <<>>) =>
        /\ Len(read_log) = Len(csv_files)
        /\ \A i \in 1..Len(read_log) : read_log[i].name = csv_files[i]
        /\ LoadedEntries # <<>> =>
              merge_call = <<[dfs |-> LoadedTables, names |-> LoadedNames]>>
        /\ SourcesOf(metadata.merged_df)
              \subseteq {LoadedNames[i] : i \in 1..Len(LoadedNames)}

\* C2: a class without CSV files, or without a file that loads, yields an
\* empty merged table and the totals 0 and 0, and the run, print_summary
\* included, ends without an exception.
C2_EmptyClassNeverRaises ==
    /\ root = "dir" => error = "none"
    /\ \A i \in 1..Len(all_metadata) :
          all_metadata[i].files = <<>> =>
              /\ IsEmpty(all_metadata[i].merged_df)
              /\ HasKey(all_metadata[i], "total_rows")
              /\ HasKey(all_metadata[i], "total_columns")
              /\ all_metadata[i].total_rows = 0
              /\ all_metadata[i].total_columns = 0

\* C3: when the first table has no column for the channel role,
\* merge_dataframes returns the table without rows and columns, whatever
\* follows the first table, and no subsequent table is ever looked at.
C3_NoChannelGivesEmpty ==
    (dataframes # <<>> /\ Matching(ChannelWord, dataframes[1]) = {}) =>
        /\ pc \in {"m_call", "m_done"}
        /\ pc = "m_done" => (result.columns = <<>> /\ result.nrows = 0
                             /\ result.data = <<>>)

C3_Witness ==
    /\ pc = "m_done"
    /\ Len(dataframes) >= 2
    /\ Matching(ChannelWord, dataframes[1]) = {}
    /\ dataframes[1].nrows > 0
    /\ Matching(<<"x">>, dataframes[2]) # {}
    /\ dataframes[2].nrows > 0

\* the suffix C4 states for the table at position p
StatedSuffix(file_name, p) ==
    LET ex_num == extract_ex_number(file_name)
    IN  IF ex_num # None THEN <<"_", "E", "x">> \o IntToStr(ex_num[1])
        ELSE <<"_">> \o IntToStr(p)

\* C4: the suffix of the table at position p >= 2 is "_Ex<N>" whenever its
\* file name yields an exercise number N, 0 included, and "_<p>" only when
\* it yields none.
C4_SuffixFromExNumber ==
    (pc \in {"m_loop", "m_done"} /\ idx > 2) =>
        suffix = StatedSuffix(file_names[idx - 1], idx - 1)

\* C5: after the iteration for a subsequent table, every role x, y, z for
\* which the table has a matching column has its column X<suffix>, Y<suffix>,
\* Z<suffix> in the result, holding the values of the first matching column.
C5_EachRoleAdded ==
    (pc \in {"m_loop", "m_done"} /\ idx > 2) =>
        LET df == dataframes[idx - 1]
        IN  \A role \in Roles :
                Matching(role, df) # {} =>
                    /\ HasCol(result, RoleLetter(role) \o suffix)
                    /\ Column(result, RoleLetter(role) \o suffix)
                         = Aligned(df.data[SetMin(Matching(role, df))], result.nrows)

\* C6: the merged table has the row count of the first table, whatever the
\* row counts of the subsequent tables (shorter, equal or longer). Stated
\* for the merges that take place: a first table without a channel column
\* gives the empty table (C3).
C6_RowCountOfFirst ==
    (pc = "m_done" /\ dataframes # <<>>
        /\ Matching(ChannelWord, dataframes[1]) # {}) =>
        result.nrows = dataframes[1].nrows

\* C7 as stated: merging exactly one table returns that table.
C7_SingleIsCopy ==
    (pc = "m_done" /\ Len(dataframes) = 1) => result = dataframes[1]

\* C7: merging exactly one table that has a channel column returns a table
\* equal to it: the same columns in the same order, the same rows and values.
C7_SingleWithChannelIsCopy ==
    (pc = "m_done" /\ Len(dataframes) = 1
        /\ Matching(ChannelWord, dataframes[1]) # {}) =>
        /\ result.columns = dataframes[1].columns
        /\ result.nrows = dataframes[1].nrows
        /\ result.data = dataframes[1].data

C7_Witness ==
    /\ pc = "m_done"
    /\ Len(dataframes) = 1
    /\ Matching(ChannelWord, dataframes[1]) # {}
    /\ dataframes[1].nrows > 0
    /\ Len(result.columns) > 1

\* C8: a root that does not exist ends the construction with
\* FileNotFoundError, a root that is not a directory with NotADirectoryError,
\* and nothing is listed, read, made or written in either case.
C8_ConstructionFails ==
    /\ (root = "missing" /\ pc # "new") =>
          (pc = "failed" /\ error = "FileNotFoundError")
    /\ (root = "file" /\ pc # "new") =>
          (pc = "failed" /\ error = "NotADirectoryError")
    /\ root # "dir" =>
          (scanned = {} /\ reads = <<>> /\ ~out_dir_made /\ outputs = <<>>)

C8_Witness ==
    pc = "failed" /\ root = "file" /\ error = "NotADirectoryError"

\* the loop of run over the classes has ended
LoopEnded == pc \in {"summary", "done", "crashed"}

\* the current class has no files, no loaded file, or no channel column on
\* its first loaded file
VoidClass ==
    \/ csv_files = <<>>
    \/ LoadedEntries = <<>>
    \/ Matching(ChannelWord, LoadedTables[1]) = {}

\* C9: after the loop of run, every class folder, in alphabetical order, has
\* been processed, and <class>_merged.csv exists exactly when the merged
\* table of the class has rows and columns, holding that table; a class
\* without files, without loaded files or without a channel column on its
\* first file writes nothing.
C9_OutputIffNonEmpty ==
    /\ LoopEnded =>
          /\ Len(all_metadata) = Len(class_folders)
          /\ \A i \in 1..Len(class_folders) :
                /\ all_metadata[i].class = class_folders[i]
                /\ class_folders[i] \in scanned
                /\ (OutputName(class_folders[i]) \in DOMAIN outputs)
                      <=> (all_metadata[i].merged_df.nrows > 0
                           /\ all_metadata[i].merged_df.columns # <<>>)
                /\ OutputName(class_folders[i]) \in DOMAIN outputs =>
                      outputs[OutputName(class_folders[i])]
                         = all_metadata[i].merged_df
          /\ \A i \in 1..(Len(class_folders) - 1) :
                StrLess(class_folders[i], class_folders[i + 1])
    /\ (pc \in {"class", "summary"} /\ ci > 1 /\ VoidClass) =>
          OutputName(class_folders[ci - 1]) \notin DOMAIN outputs

C9_Witness ==
    /\ LoopEnded
    /\ Len(class_folders) = 2
    /\ all_metadata[1].files # <<>>
    /\ IsEmpty(all_metadata[1].merged_df)
    /\ OutputName(class_folders[1]) \notin DOMAIN outputs
    /\ OutputName(class_folders[2]) \in DOMAIN outputs

\* the table at position p of a merge has a part in the merged table
Contributes(p, dfs, names, merged) ==
    IF p = 1
    THEN /\ merged.columns # <<>>
         /\ SubSeq(merged.columns, 1, Len(dfs[1].columns)) = dfs[1].columns
    ELSE \E role \in Roles :
            /\ Matching(role, dfs[p]) # {}
            /\ HasCol(merged, RoleLetter(role) \o Suffix(names[p], p))

\* C10: the metadata of a class lists a file only if the file loaded and has
\* a part in the merged table of the class, never a file that was skipped,
\* and the totals it holds are the row and column counts of the merged table.
C10_MetadataReflectsMerge ==
    pc = "save" =>
        /\ \A k \in 1..Len(metadata.files) :
              /\ k <= Len(LoadedNames)
              /\ metadata.files[k].name = LoadedNames[k]
              /\ Contributes(k, LoadedTables, LoadedNames, metadata.merged_df)
        /\ Len(metadata.files) = Len(LoadedNames)
        /\ HasKey(metadata, "total_rows") =>
              metadata.total_rows = metadata.merged_df.nrows
        /\ HasKey(metadata, "total_columns") =>
              metadata.total_columns = Len(metadata.merged_df.columns)

====
